---- MODULE Spec2Model ----
(***************************************************************************)
(* Model of the demo trading platform's quote resolver (market_data.py)    *)
(* and of its WebSocket subscription broadcaster (ConnectionManager in     *)
(* main.py).                                                               *)
(*                                                                         *)
(* Decimals are integers counted in hundredths (11000 is 110.00); percent  *)
(* values are counted in hundredths of a percent (1000 is 10.00 %).  The   *)
(* upstream responses are chosen so that every Decimal division of the     *)
(* model is exact.                                                         *)
(*                                                                         *)
(* A Python optional value is a sequence: <<>> is None, <<v>> is v.  A     *)
(* Python dict is a function whose DOMAIN is the set of keys present, so   *)
(* "key absent" and "key present with value None" stay distinct.           *)
(***************************************************************************)
EXTENDS Integers, Sequences, FiniteSets, TLC

\* ------------------------------------------------------------------ bounds
MaxTime == 10
TickStep == 5
MaxMockTime == 90
MaxItems == 2
MockTickStep == 30

\* ------------------------------------------------------- program constants
TTL == 10
TimeBucket == 60
DefaultBasePrice == 100
MockVariationPct == 2

\* ----------------------------------------------------------- Python values
None == <<>>
Some(v) == <<v>>

\* bool(x) of an optional number: None and 0 are falsy
Truthy(x) == x # None /\ x[1] # 0

\* dict.get(key): None for a missing key
Get(d, k) == IF k \in DOMAIN d THEN d[k] ELSE None

\* Decimal(str(x)) if x else None
DecimalIf(x) == IF Truthy(x) THEN x ELSE None

\* a call's outcome: it raised, or it returned val
Returned(v) == [exc |-> FALSE, val |-> v]
Raised == [exc |-> TRUE, val |-> None]

\* -------------------------------------------------------------- the domain
Symbols == {"ETHUSD", "AAPL"}
AssetTypes == {"stock", "etf", "crypto"}
Connections == {"A", "B"}
WsSymbols == {"BTCUSD", "ETHUSD"}

VARIABLES
    now,            \* wall clock, seconds
    redis_client,   \* TRUE iff Redis.from_url succeeded at import
    redis_up,       \* TRUE iff the Redis server answers
    store,          \* Redis keys price:<symbol>: None or <<[price, expires]>>
    last,           \* the last get_quote call: its inputs, adapter calls, result
    active_connections,  \* ConnectionManager.active_connections (a list)
    subscriptions,       \* ConnectionManager.subscriptions (a dict)
    handler,             \* where each websocket_endpoint call stands
    bcast,               \* the broadcast_price_update call in progress
    ws_last,             \* the last ConnectionManager call and its outcome
    rng,            \* the state of the `random` module's shared generator
    mock_first,     \* per symbol, the first get_mock_price result of its minute
    synth_last,     \* the last synthetic price or history call and its result
    req,            \* the get_portfolio or get_watchlist request in progress
    TRADING_FEE_PERCENT,  \* the fee rate read from the environment at import
    db,             \* the committed rows: the user's cash, holdings, trades
    calls,          \* where each create_trade request stands
    trade_last      \* the last create_trade request that returned

resolver_vars == <<now, redis_client, redis_up, store, last>>
ws_vars == <<active_connections, subscriptions, handler, bcast, ws_last>>
synth_vars == <<rng, mock_first, synth_last>>
trade_vars == <<TRADING_FEE_PERCENT, db, calls, trade_last>>
vars == <<now, redis_client, redis_up, store, last,
          active_connections, subscriptions, handler, bcast, ws_last,
          rng, mock_first, synth_last, req,
          TRADING_FEE_PERCENT, db, calls, trade_last>>

\* ================================================================= cache
\* redis_client.get(key): raises when the server is unreachable; an expired
\* key is gone
RedisGet(symbol) ==
    IF ~redis_up THEN Raised
    ELSE IF store[symbol] # None /\ now < store[symbol][1].expires
         THEN Returned(Some(store[symbol][1].price))
         ELSE Returned(None)

\* redis_client.setex(key, ttl, value)
RedisSetex(symbol, ttl, price) ==
    IF ~redis_up THEN [exc |-> TRUE, store |-> store]
    ELSE [exc |-> FALSE,
          store |-> [store EXCEPT ![symbol] =
                        Some([price |-> price, expires |-> now + ttl])]]

\* a get_cached_price that finds nothing under the symbol's key
get_cached_price_never_finds(symbol) == Returned(None)

\* get_cached_price without its try/except
get_cached_price_unguarded(symbol) ==
    IF ~redis_client THEN Returned(None)
    ELSE RedisGet(symbol)

\* get_cached_price
get_cached_price(symbol) ==
    IF ~redis_client THEN Returned(None)
    ELSE LET r == RedisGet(symbol) IN
         IF r.exc THEN Returned(None)
         ELSE Returned(r.val)   \* str(Decimal) is never empty: `if cached` holds

\* set_cached_price taking its ttl for minutes: setex(key, ttl * 60, value)
set_cached_price_minutes(symbol, price) ==
    IF ~redis_client THEN [exc |-> FALSE, store |-> store]
    ELSE LET r == RedisSetex(symbol, TTL * TimeBucket, price) IN
         [exc |-> FALSE, store |-> r.store]

\* set_cached_price with the default ttl
set_cached_price(symbol, price) ==
    IF ~redis_client THEN [exc |-> FALSE, store |-> store]
    ELSE LET r == RedisSetex(symbol, TTL, price) IN
         [exc |-> FALSE, store |-> r.store]

\* ====================================================== upstream responses
\* what the Binance 24hr ticker answers: no usable answer (timeout, non-200,
\* malformed body), or a 200 with lastPrice (0 for a pair without trades)
NoBinance ==
    [ok |-> FALSE, lastPrice |-> 0, openPrice |-> 0, highPrice |-> 0,
     lowPrice |-> 0, prevClosePrice |-> 0, priceChangePercent |-> 0,
     volume |-> 0]

BinanceResponses ==
    { NoBinance,
      [ok |-> TRUE, lastPrice |-> 0, openPrice |-> 0, highPrice |-> 0,
       lowPrice |-> 0, prevClosePrice |-> 10000, priceChangePercent |-> 0,
       volume |-> 0],
      [ok |-> TRUE, lastPrice |-> 11000, openPrice |-> 10000,
       highPrice |-> 11500, lowPrice |-> 9500, prevClosePrice |-> 10000,
       priceChangePercent |-> 1000, volume |-> 1000] }

\* what the Finnhub quote endpoint answers: no usable answer (no API key,
\* timeout, non-200), or a 200 with c, pc, d, dp (c = 0 for an unknown
\* symbol, d and dp null when Finnhub has no change figures)
NoFinnhub ==
    [ok |-> FALSE, c |-> None, o |-> None, h |-> None, l |-> None,
     pc |-> None, d |-> None, dp |-> None]

FinnhubResponses ==
    { NoFinnhub,
      [ok |-> TRUE, c |-> Some(0), o |-> Some(0), h |-> Some(0),
       l |-> Some(0), pc |-> Some(0), d |-> None, dp |-> None],
      [ok |-> TRUE, c |-> Some(11000), o |-> Some(10000), h |-> Some(11500),
       l |-> Some(9500), pc |-> Some(10000), d |-> None, dp |-> None],
      [ok |-> TRUE, c |-> Some(11000), o |-> Some(10000), h |-> Some(11500),
       l |-> Some(9500), pc |-> Some(10000), d |-> Some(1000),
       dp |-> Some(1000)] }

\* what yfinance answers: a usable fast_info, only a usable info dict, no
\* valid data at all, or an exception (rate limit, network)
NoYfinance ==
    [kind |-> "error", price |-> 0, open |-> 0, high |-> 0, low |-> 0,
     previous_close |-> 0, volume |-> 0]

YfinanceResponses ==
    { NoYfinance,
      [NoYfinance EXCEPT !.kind = "nodata"],
      [kind |-> "fast_info", price |-> 12000, open |-> 10000,
       high |-> 12500, low |-> 9500, previous_close |-> 10000,
       volume |-> 0],
      [kind |-> "info", price |-> 12500, open |-> 10000, high |-> 12500,
       low |-> 9500, previous_close |-> 10000, volume |-> 1000] }


\* ================================================================ adapters
\* get_stock_quote_finnhub
get_stock_quote_finnhub(resp) ==
    IF resp.ok /\ Truthy(resp.c)
    THEN Some( "current_price" :> resp.c
            @@ "open_price" :> DecimalIf(resp.o)
            @@ "high_price" :> DecimalIf(resp.h)
            @@ "low_price" :> DecimalIf(resp.l)
            @@ "previous_close" :> DecimalIf(resp.pc)
            @@ "change" :> DecimalIf(resp.d)
            @@ "change_percent" :> DecimalIf(resp.dp) )
    ELSE None

\* base_prices.get(symbol, 100.0), in whole units
BasePrice(symbol) ==
    CASE symbol = "AAPL" -> 250
      [] symbol = "MSFT" -> 425
      [] symbol = "GOOGL" -> 175
      [] symbol = "TSLA" -> 380
      [] symbol = "AMZN" -> 215
      [] symbol = "META" -> 575
      [] symbol = "NVDA" -> 140
      [] symbol = "SPY" -> 590
      [] symbol = "QQQ" -> 515
      [] symbol = "BTCUSD" -> 95000
      [] symbol = "ETHUSD" -> 3600
      [] symbol = "SOLUSD" -> 210
      [] OTHER -> DefaultBasePrice

\* int(hashlib.md5(symbol.encode()).hexdigest()[:8], 16), abstracted to a
\* fixed number per symbol
SymbolSeed(symbol) ==
    CASE symbol = "AAPL" -> 7
      [] symbol = "ETHUSD" -> 11
      [] OTHER -> 13

\* random.seed(seed); random.uniform(-0.02, 0.02): a fixed function of the
\* seed, in whole percent
SeededVariation(seed) == ((seed * 3) % (2 * MockVariationPct + 1)) - MockVariationPct

\* the shared generator is the seed it was last given and the number of draws
\* since.  At import it is seeded from the system's entropy, a state that
\* get_mock_price and get_mock_historical_data never draw from: both seed
\* the generator first
Unseeded == [seed |-> 0, draws |-> 0]

\* random.seed(n)
random_seed(n) == [seed |-> n, draws |-> 0]

\* the generator after k more draws
Drawn(r, k) == [r EXCEPT !.draws = @ + k]

\* random.uniform(-0.02, 0.02) drawn from generator state r, in whole percent
random_uniform(r) == SeededVariation(r.seed + r.draws)

\* get_mock_price without its random.seed call: it draws from the shared
\* generator as it finds it
get_mock_price_unseeded(symbol, t) ==
    LET variation == random_uniform(rng)
        current_price == BasePrice(symbol) * (100 + variation)
        previous_close == BasePrice(symbol) * 100
        change == current_price - previous_close
        change_percent == IF previous_close > 0
                          THEN (change * 10000) \div previous_close ELSE 0
    IN  "current_price" :> Some(current_price)
     @@ "open_price" :> Some(previous_close)
     @@ "high_price" :> Some((current_price * 101) \div 100)
     @@ "low_price" :> Some((current_price * 99) \div 100)
     @@ "previous_close" :> Some(previous_close)
     @@ "change" :> Some(change)
     @@ "change_percent" :> Some(change_percent)

\* get_mock_price at time t
get_mock_price(symbol, t) ==
    LET variation == SeededVariation(SymbolSeed(symbol) + (t \div TimeBucket))
        current_price == BasePrice(symbol) * (100 + variation)
        previous_close == BasePrice(symbol) * 100
        change == current_price - previous_close
        change_percent == IF previous_close > 0
                          THEN (change * 10000) \div previous_close ELSE 0
    IN  "current_price" :> Some(current_price)
     @@ "open_price" :> Some(previous_close)
     @@ "high_price" :> Some((current_price * 101) \div 100)
     @@ "low_price" :> Some((current_price * 99) \div 100)
     @@ "previous_close" :> Some(previous_close)
     @@ "change" :> Some(change)
     @@ "change_percent" :> Some(change_percent)

\* get_stock_quote_yfinance at time t: never None
get_stock_quote_yfinance(symbol, resp, t) ==
    CASE resp.kind = "fast_info" /\ resp.price > 0 ->
            Some( "current_price" :> Some(resp.price)
               @@ "open_price" :> Some(resp.open)
               @@ "high_price" :> Some(resp.high)
               @@ "low_price" :> Some(resp.low)
               @@ "previous_close" :> Some(resp.previous_close) )
      [] resp.kind = "info" /\ resp.price > 0 ->
            Some( "current_price" :> Some(resp.price)
               @@ "open_price" :> Some(resp.open)
               @@ "high_price" :> Some(resp.high)
               @@ "low_price" :> Some(resp.low)
               @@ "previous_close" :> Some(resp.previous_close)
               @@ "volume" :> Some(resp.volume) )
      [] OTHER -> Some(get_mock_price(symbol, t))

\* get_crypto_price
get_crypto_price(resp) ==
    IF resp.ok
    THEN Some( "current_price" :> Some(resp.lastPrice)
            @@ "open_price" :> Some(resp.openPrice)
            @@ "high_price" :> Some(resp.highPrice)
            @@ "low_price" :> Some(resp.lowPrice)
            @@ "previous_close" :> Some(resp.prevClosePrice)
            @@ "change_percent" :> Some(resp.priceChangePercent)
            @@ "volume" :> Some(resp.volume) )
    ELSE None

\* ================================================================ resolver
NoFeed == [binance |-> NoBinance, finnhub |-> NoFinnhub, yfinance |-> NoYfinance]

\* the upstream answers one get_quote(symbol, asset_type) call can meet: an
\* answer is drawn for a source only when the call reaches it (none on a
\* cache hit, the crypto source for crypto, else the primary source and,
\* when its answer is unusable, the secondary one)
UpstreamFeeds(asset_type) ==
    IF asset_type = "crypto"
    THEN { [NoFeed EXCEPT !.binance = b] : b \in BinanceResponses }
    ELSE { [NoFeed EXCEPT !.finnhub = f, !.yfinance = y] :
             f \in { g \in FinnhubResponses :
                       get_stock_quote_finnhub(g) # None },
             y \in {NoYfinance} }
         \cup
         { [NoFeed EXCEPT !.finnhub = f, !.yfinance = y] :
             f \in { g \in FinnhubResponses :
                       get_stock_quote_finnhub(g) = None },
             y \in YfinanceResponses }

Feeds(symbol, asset_type) ==
    IF Truthy(get_cached_price(symbol).val) THEN {NoFeed}
    ELSE UpstreamFeeds(asset_type)

\* an adapter chain in which crypto falls back to the equities adapters
AdapterChainCryptoFallsBack(symbol, asset_type, feed, t) ==
    LET c == get_crypto_price(feed.binance)
        q == get_stock_quote_finnhub(feed.finnhub)
    IN  IF asset_type = "crypto" /\ c # None
        THEN [calls |-> <<"get_crypto_price">>, data |-> c]
        ELSE IF q # None
        THEN [calls |-> (IF asset_type = "crypto"
                         THEN <<"get_crypto_price">> ELSE <<>>)
                        \o <<"get_stock_quote_finnhub">>,
              data |-> q]
        ELSE [calls |-> (IF asset_type = "crypto"
                         THEN <<"get_crypto_price">> ELSE <<>>)
                        \o <<"get_stock_quote_finnhub",
                             "get_stock_quote_yfinance">>,
              data |-> get_stock_quote_yfinance(symbol, feed.yfinance, t)]

\* an adapter chain that invokes the secondary adapter unconditionally
AdapterChainBothAlways(symbol, asset_type, feed, t) ==
    IF asset_type = "crypto"
    THEN [calls |-> <<"get_crypto_price">>,
          data |-> get_crypto_price(feed.binance)]
    ELSE LET q == get_stock_quote_finnhub(feed.finnhub)
             y == get_stock_quote_yfinance(symbol, feed.yfinance, t)
         IN  [calls |-> <<"get_stock_quote_finnhub",
                          "get_stock_quote_yfinance">>,
              data |-> IF q # None THEN q ELSE y]

\* the adapter chain of get_quote: the adapters invoked, in order, and the
\* quote_data they leave
AdapterChain(symbol, asset_type, feed, t) ==
    IF asset_type = "crypto"
    THEN [calls |-> <<"get_crypto_price">>,
          data |-> get_crypto_price(feed.binance)]
    ELSE LET q == get_stock_quote_finnhub(feed.finnhub) IN
         IF q # None
         THEN [calls |-> <<"get_stock_quote_finnhub">>, data |-> q]
         ELSE [calls |-> <<"get_stock_quote_finnhub",
                           "get_stock_quote_yfinance">>,
               data |-> get_stock_quote_yfinance(symbol, feed.yfinance, t)]

\* (change / previous_close) * 100, in hundredths of a percent
PercentOf(change, previous_close) == (change * 10000) \div previous_close

\* "Calculate change if not provided": the two derivations of get_quote
DeriveChange(q) ==
    IF "change" \notin DOMAIN q /\ Truthy(Get(q, "previous_close"))
    THEN q @@ ("change" :> Some(q["current_price"][1] - q["previous_close"][1]))
    ELSE q

DeriveChangePercent(q) ==
    IF /\ "change_percent" \notin DOMAIN q
       /\ Truthy(Get(q, "previous_close"))
       /\ q["previous_close"][1] > 0
    THEN IF "change" \notin DOMAIN q \/ Get(q, "change") = None
         THEN Raised        \* KeyError, or None / Decimal
         ELSE Returned(q @@ ("change_percent" :>
                  Some(PercentOf(q["change"][1], q["previous_close"][1]))))
    ELSE Returned(q)

\* the cache-hit branch of get_quote, writing the price back to the cache
OnCacheHitRefreshes(symbol, asset_type, price) ==
    [exc |-> FALSE, hit |-> TRUE, calls |-> <<>>, raw |-> None,
     quote |-> "symbol" :> symbol
            @@ "asset_type" :> asset_type
            @@ "current_price" :> price
            @@ "timestamp" :> "datetime.now()"
            @@ "cached" :> TRUE,
     store |-> set_cached_price(symbol, price[1]).store]

\* the cache-hit branch of get_quote, filling in the change fields it has
\* no figures for
OnCacheHitPadded(symbol, asset_type, price) ==
    [exc |-> FALSE, hit |-> TRUE, calls |-> <<>>, raw |-> None,
     quote |-> "symbol" :> symbol
            @@ "asset_type" :> asset_type
            @@ "current_price" :> price
            @@ "timestamp" :> "datetime.now()"
            @@ "cached" :> TRUE
            @@ "change" :> None
            @@ "change_percent" :> None,
     store |-> store]

\* the cache-hit branch of get_quote: it returns the cached price at once
OnCacheHit(symbol, asset_type, price) ==
    [exc |-> FALSE, hit |-> TRUE, calls |-> <<>>, raw |-> None,
     quote |-> "symbol" :> symbol
            @@ "asset_type" :> asset_type
            @@ "current_price" :> price
            @@ "timestamp" :> "datetime.now()"
            @@ "cached" :> TRUE,
     store |-> store]

\* get_quote from the adapter calls on: what runs after a cache miss
OnCacheMiss(symbol, asset_type, feed) ==
    LET chain == AdapterChain(symbol, asset_type, feed, now)
        raises == [exc |-> TRUE, hit |-> FALSE, calls |-> <<>>, raw |-> None,
                 quote |-> <<>>, store |-> store]
    IN  IF chain.data = None
        THEN [raises EXCEPT !.calls = chain.calls]   \* raise ValueError
        ELSE LET quote_data == chain.data[1]
                 put == set_cached_price(symbol, quote_data["current_price"][1])
                 derived == DeriveChangePercent(DeriveChange(quote_data))
             IN  IF put.exc
                 THEN [raises EXCEPT !.calls = chain.calls,
                                   !.raw = chain.data]
                 ELSE IF derived.exc
                 THEN [raises EXCEPT !.calls = chain.calls,
                                   !.raw = chain.data,
                                   !.store = put.store]
                 ELSE [exc |-> FALSE, hit |-> FALSE, calls |-> chain.calls,
                       raw |-> chain.data,
                       quote |-> "symbol" :> symbol
                              @@ "asset_type" :> asset_type
                              @@ "timestamp" :> "datetime.now()"
                              @@ derived.val,
                       store |-> put.store]

\* get_quote(symbol, asset_type) against the upstream answers `feed`
get_quote(symbol, asset_type, feed) ==
    LET cached == get_cached_price(symbol)
        raises == [exc |-> TRUE, hit |-> FALSE, calls |-> <<>>, raw |-> None,
                 quote |-> <<>>, store |-> store]
    IN  IF cached.exc THEN raises
        ELSE IF Truthy(cached.val)
        THEN OnCacheHit(symbol, asset_type, cached.val)
        ELSE OnCacheMiss(symbol, asset_type, feed)

NoCall == [called |-> FALSE, symbol |-> "", asset_type |-> "",
           feed |-> NoFeed, redis |-> FALSE, exc |-> FALSE, hit |-> FALSE,
           calls |-> <<>>, raw |-> None, quote |-> <<>>]

\* one call of get_quote, start to return
GetQuote ==
    \E symbol \in Symbols, asset_type \in AssetTypes :
      \E feed \in Feeds(symbol, asset_type) :
      \E r \in {get_quote(symbol, asset_type, feed)} :
        /\ store' = r.store
        /\ last' = [called |-> TRUE, symbol |-> symbol,
                    asset_type |-> asset_type, feed |-> feed,
                    redis |-> redis_client /\ redis_up,
                    exc |-> r.exc, hit |-> r.hit, calls |-> r.calls,
                    raw |-> r.raw, quote |-> r.quote]
        /\ UNCHANGED <<now, redis_client, redis_up>>
        /\ UNCHANGED <<ws_vars, synth_vars, req, trade_vars>>

\* the clock advances; Redis drops the keys whose ttl has run out
Tick ==
    /\ now + TickStep <= MaxTime
    /\ now' = now + TickStep
    /\ store' = [s \in Symbols |->
                   IF store[s] # None /\ store[s][1].expires <= now'
                   THEN None ELSE store[s]]
    /\ UNCHANGED <<redis_client, redis_up, last>>
    /\ UNCHANGED <<ws_vars, synth_vars, req, trade_vars>>

\* the Redis server becomes unreachable
RedisFails ==
    /\ redis_client /\ redis_up
    /\ redis_up' = FALSE
    /\ UNCHANGED <<now, redis_client, store, last>>
    /\ UNCHANGED <<ws_vars, synth_vars, req, trade_vars>>

\* the Redis server is reachable again
RedisRecovers ==
    /\ redis_client /\ ~redis_up
    /\ redis_up' = TRUE
    /\ UNCHANGED <<now, redis_client, store, last>>
    /\ UNCHANGED <<ws_vars, synth_vars, req, trade_vars>>

\* ============================================================= broadcaster
Range(seq) == { seq[i] : i \in 1..Len(seq) }

\* list.remove(x): the list without the first x
RECURSIVE RemoveFirst(_, _)
RemoveFirst(seq, x) ==
    IF seq = <<>> THEN <<>>
    ELSE IF Head(seq) = x THEN Tail(seq)
    ELSE <<Head(seq)>> \o RemoveFirst(Tail(seq), x)

EmptyDict == [c \in {} |-> {}]

\* d[k] = v
DictSet(d, k, v) == [x \in DOMAIN d \cup {k} |-> IF x = k THEN v ELSE d[x]]

\* del d[k]
DictDel(d, k) == [x \in DOMAIN d \ {k} |-> d[x]]

\* the outcome of a ConnectionManager method on the manager's state
Manager(exc, active, subs) == [exc |-> exc, active |-> active, subs |-> subs]

\* ConnectionManager.connect; accepted is whether websocket.accept() returned
connect(websocket, accepted) ==
    IF ~accepted THEN Manager(TRUE, active_connections, subscriptions)
    ELSE Manager(FALSE, Append(active_connections, websocket),
                 DictSet(subscriptions, websocket, {}))

\* ConnectionManager.disconnect with list.pop() in place of remove(websocket)
disconnect_pops_last(websocket) ==
    IF websocket \notin Range(active_connections)
    THEN Manager(TRUE, active_connections, subscriptions)
    ELSE Manager(FALSE,
                 SubSeq(active_connections, 1, Len(active_connections) - 1),
                 IF websocket \in DOMAIN subscriptions
                 THEN DictDel(subscriptions, websocket) ELSE subscriptions)

\* ConnectionManager.disconnect with an empty body
disconnect_forgotten(websocket) ==
    Manager(FALSE, active_connections, subscriptions)

\* ConnectionManager.disconnect without its del self.subscriptions[websocket]
disconnect_keeps_subscriptions(websocket) ==
    IF websocket \notin Range(active_connections)
    THEN Manager(TRUE, active_connections, subscriptions)
    ELSE Manager(FALSE, RemoveFirst(active_connections, websocket),
                 subscriptions)

\* ConnectionManager.disconnect; list.remove raises ValueError for a missing x
disconnect(websocket) ==
    IF websocket \notin Range(active_connections)
    THEN Manager(TRUE, active_connections, subscriptions)
    ELSE Manager(FALSE, RemoveFirst(active_connections, websocket),
                 IF websocket \in DOMAIN subscriptions
                 THEN DictDel(subscriptions, websocket) ELSE subscriptions)

\* ConnectionManager.subscribe with setdefault in place of the membership
\* test: self.subscriptions.setdefault(websocket, set()).update(symbols)
subscribe_creates(websocket, symbols) ==
    Manager(FALSE, active_connections,
            DictSet(subscriptions, websocket,
                    (IF websocket \in DOMAIN subscriptions
                     THEN subscriptions[websocket] ELSE {}) \cup symbols))

\* ConnectionManager.subscribe assigning set(symbols) in place of update
subscribe_replaces(websocket, symbols) ==
    IF websocket \in DOMAIN subscriptions
    THEN Manager(FALSE, active_connections,
                 DictSet(subscriptions, websocket, symbols))
    ELSE Manager(FALSE, active_connections, subscriptions)

\* ConnectionManager.subscribe
subscribe(websocket, symbols) ==
    IF websocket \in DOMAIN subscriptions
    THEN Manager(FALSE, active_connections,
                 DictSet(subscriptions, websocket,
                         subscriptions[websocket] \cup symbols))
    ELSE Manager(FALSE, active_connections, subscriptions)

\* ConnectionManager.unsubscribe with set.remove for each symbol in place of
\* difference_update: KeyError for a symbol the set does not hold
unsubscribe_strict(websocket, symbols) ==
    IF websocket \in DOMAIN subscriptions
    THEN IF symbols \subseteq subscriptions[websocket]
         THEN Manager(FALSE, active_connections,
                      DictSet(subscriptions, websocket,
                              subscriptions[websocket] \ symbols))
         ELSE Manager(TRUE, active_connections, subscriptions)
    ELSE Manager(FALSE, active_connections, subscriptions)

\* ConnectionManager.unsubscribe
unsubscribe(websocket, symbols) ==
    IF websocket \in DOMAIN subscriptions
    THEN Manager(FALSE, active_connections,
                 DictSet(subscriptions, websocket,
                         subscriptions[websocket] \ symbols))
    ELSE Manager(FALSE, active_connections, subscriptions)

\* the test of broadcast_price_update's loop body, without the test
ShouldSendToAll(connection, symbol) == TRUE

\* symbol in self.subscriptions.get(connection, set())
ShouldSend(connection, symbol) ==
    symbol \in (IF connection \in DOMAIN subscriptions
                THEN subscriptions[connection] ELSE {})

\* await connection.send_json(data) without the try/except around it
UnguardedSend(ok) == IF ok THEN "sent" ELSE "raised"

\* try: await connection.send_json(data) / except Exception: pass
GuardedSend(ok) == IF ok THEN "sent" ELSE "swallowed"

\* the loop of broadcast_price_update from list index i on: the index of the
\* next connection it sends to, 0 when the loop runs out
RECURSIVE NextSend(_, _)
NextSend(i, symbol) ==
    IF i > Len(active_connections) THEN 0
    ELSE IF ShouldSend(active_connections[i], symbol) THEN i
    ELSE NextSend(i + 1, symbol)

\* no broadcast yet.  sent lists the connections send_json was called for,
\* delivered those it returned for; mutated tells that a manager call changed
\* the list or the map since the broadcast began, and steady holds the
\* connections registered and subscribed to the symbol ever since it began
Idle == [state |-> "idle", symbol |-> "", idx |-> 0, sent |-> <<>>,
         delivered |-> {}, mutated |-> FALSE, steady |-> {}]

\* no ConnectionManager call yet.  symbols is the message's symbol list,
\* before is the connection's subscription set as the call found it, ack is
\* the type of the acknowledgment the handler goes on to send
NoWsCall == [op |-> "", conn |-> "", symbols |-> {}, before |-> {},
             exc |-> FALSE, repeat |-> FALSE, changed |-> FALSE, ack |-> "",
             ack_symbols |-> {}, error |-> ""]

\* the "type" of the acknowledgment websocket_endpoint sends after the call
AckType(op) ==
    CASE op = "subscribe" -> "subscribed"
      [] op = "unsubscribe" -> "unsubscribed"
      [] OTHER -> ""

\* the "symbols" of that acknowledgment: the message's list, whatever the
\* connection's set has become
AckSymbols(symbols, subs, c) == symbols

\* a ConnectionManager method was called for connection c and left r
ManagerCalledOn(error, op, c, symbols, r, repeat) ==
    /\ active_connections' = r.active
    /\ subscriptions' = r.subs
    /\ ws_last' = [op |-> op, conn |-> c, symbols |-> symbols,
                   before |-> IF c \in DOMAIN subscriptions
                              THEN subscriptions[c] ELSE {},
                   exc |-> r.exc, repeat |-> repeat,
                   changed |-> (r.active # active_connections
                                \/ r.subs # subscriptions),
                   ack |-> IF r.exc \/ repeat THEN "" ELSE AckType(op),
                   ack_symbols |-> IF r.exc \/ repeat \/ AckType(op) = ""
                                   THEN {}
                                   ELSE AckSymbols(symbols, r.subs, c),
                   error |-> error]
    /\ bcast' = IF /\ bcast.state \in {"sending", "done"}
                   /\ (r.active # active_connections \/ r.subs # subscriptions)
                THEN [bcast EXCEPT
                        !.mutated = TRUE,
                        !.steady = IF bcast.state = "done" THEN @
                                   ELSE { x \in @ :
                                            /\ x \in Range(r.active)
                                            /\ x \in DOMAIN r.subs
                                            /\ bcast.symbol \in r.subs[x] }]
                ELSE bcast
    /\ UNCHANGED <<resolver_vars, synth_vars, req, trade_vars>>

\* a ConnectionManager method was called outside an except branch
ManagerCalled(op, c, symbols, r, repeat) ==
    ManagerCalledOn("", op, c, symbols, r, repeat)

\* websocket_endpoint starts: await manager.connect(websocket)
WsConnect(c) ==
    /\ handler[c] = "new"
    /\ \E accepted \in BOOLEAN :
         /\ ManagerCalled("connect", c, {}, connect(c, accepted), FALSE)
         /\ handler' = [handler EXCEPT
                          ![c] = IF accepted THEN "open" ELSE "aborted"]

\* receive_json returns a message: subscribe, unsubscribe, or another type
WsReceive(c) ==
    /\ handler[c] = "open"
    /\ \E type \in {"subscribe", "unsubscribe", "ping"},
          symbols \in SUBSET WsSymbols :
         /\ CASE type = "subscribe" ->
                   /\ ManagerCalled(type, c, symbols,
                                    subscribe(c, symbols), FALSE)
                   /\ handler' = [handler EXCEPT ![c] = "acking"]
              [] type = "unsubscribe" ->
                   /\ ManagerCalled(type, c, symbols,
                                    unsubscribe(c, symbols), FALSE)
                   /\ handler' = [handler EXCEPT ![c] = "acking"]
              [] OTHER ->
                   /\ symbols = {}
                   /\ UNCHANGED vars

\* the acknowledgment's send_json returns
WsAcked(c) ==
    /\ handler[c] = "acking"
    /\ handler' = [handler EXCEPT ![c] = "open"]
    /\ UNCHANGED <<active_connections, subscriptions, bcast, ws_last>>
    /\ UNCHANGED <<resolver_vars, synth_vars, req, trade_vars>>

\* what ends the handler's loop: the client's disconnect, or another
\* exception (a malformed message, a failed send)
HandlerErrors == {"WebSocketDisconnect", "Exception"}

\* the handler with its first except branch only
OnHandlerErrorDisconnectOnly(error) ==
    IF error = "WebSocketDisconnect" THEN "disconnect" ELSE "propagate"

\* the handler's except branches: both call manager.disconnect(websocket)
OnHandlerError(error) == "disconnect"

\* receive_json or the acknowledgment's send_json raises (WebSocketDisconnect
\* or any other exception): manager.disconnect(websocket)
WsFails(c) ==
    /\ handler[c] \in {"open", "acking"}
    /\ \E error \in HandlerErrors :
         IF OnHandlerError(error) = "disconnect"
         THEN /\ ManagerCalledOn(error, "disconnect", c, {}, disconnect(c),
                                 FALSE)
              /\ handler' = [handler EXCEPT ![c] = "closed"]
         ELSE /\ handler' = [handler EXCEPT ![c] = "closed"]
              /\ UNCHANGED <<active_connections, subscriptions, bcast,
                             ws_last>>
              /\ UNCHANGED <<resolver_vars, synth_vars, req, trade_vars>>

\* manager.disconnect(websocket) is called again for a closed connection
DisconnectAgain(c) ==
    /\ handler[c] = "closed"
    /\ ManagerCalled("disconnect", c, {}, disconnect(c), TRUE)
    /\ UNCHANGED handler

\* manager.subscribe or manager.unsubscribe is called for a connection whose
\* handler has disconnected it; no handler is there to acknowledge
CallAfterClose(c) ==
    /\ handler[c] = "closed"
    /\ \E symbols \in SUBSET WsSymbols :
         \/ ManagerCalled("subscribe", c, symbols,
                          subscribe(c, symbols), TRUE)
         \/ ManagerCalled("unsubscribe", c, symbols,
                          unsubscribe(c, symbols), TRUE)
    /\ UNCHANGED handler

\* broadcast_price_update runs on from list index i to its next send_json
BroadcastRunsFrom(i, symbol, sent, delivered, mutated, steady) ==
    LET j == NextSend(i, symbol) IN
    /\ bcast' = IF j = 0
                THEN [state |-> "done", symbol |-> symbol,
                      idx |-> Len(active_connections) + 1, sent |-> sent,
                      delivered |-> delivered, mutated |-> mutated,
                      steady |-> steady]
                ELSE [state |-> "sending", symbol |-> symbol, idx |-> j,
                      sent |-> Append(sent, active_connections[j]),
                      delivered |-> delivered, mutated |-> mutated,
                      steady |-> steady]
    /\ UNCHANGED <<active_connections, subscriptions, handler, ws_last>>
    /\ UNCHANGED <<resolver_vars, synth_vars, req, trade_vars>>

\* broadcast_price_update(symbol, data) is called
BroadcastStart ==
    /\ bcast.state # "sending"
    /\ \E symbol \in WsSymbols :
         BroadcastRunsFrom(1, symbol, <<>>, {}, FALSE,
             { c \in Range(active_connections) : ShouldSend(c, symbol) })

\* the pending send_json returns or raises: the loop goes on after a send and
\* after a swallowed exception, and ends where an exception leaves it
BroadcastResume ==
    /\ bcast.state = "sending"
    /\ \E ok \in BOOLEAN :
         IF GuardedSend(ok) = "raised"
         THEN /\ bcast' = [bcast EXCEPT !.state = "raised"]
              /\ UNCHANGED <<active_connections, subscriptions, handler,
                             ws_last>>
              /\ UNCHANGED <<resolver_vars, synth_vars, req, trade_vars>>
         ELSE BroadcastRunsFrom(bcast.idx + 1, bcast.symbol, bcast.sent,
                  IF GuardedSend(ok) = "sent"
                  THEN bcast.delivered \cup {bcast.sent[Len(bcast.sent)]}
                  ELSE bcast.delivered,
                  bcast.mutated, bcast.steady)

\* ============================================================== requests
\* get_portfolio and get_watchlist resolve a quote for each row of a query
RequestKinds == {"get_portfolio", "get_watchlist"}

\* the rows: holdings or watchlist items, by symbol and asset type
RequestItems ==
    { [symbol |-> "ETHUSD", asset_type |-> "crypto"],
      [symbol |-> "AAPL", asset_type |-> "stock"] }

ItemLists ==
    UNION { [1..n -> RequestItems] : n \in 1..MaxItems }

\* items is the query's rows, idx the row the loop is at, failed the rows
\* whose quote could not be had, out the response list built so far
NoRequest == [state |-> "idle", kind |-> "", items |-> <<>>, idx |-> 0,
              failed |-> {}, out |-> <<>>]

\* the loop body without its try/except
OnQuoteFailureRaises(kind) == "raise"

\* the except branch of the loop body: get_portfolio skips the holding,
\* get_watchlist appends the item without a price
OnQuoteFailure(kind) ==
    IF kind = "get_portfolio" THEN "continue" ELSE "unpriced"

\* the handler is called and its query returns the rows
RequestStart ==
    /\ req.state = "idle"
    /\ \E kind \in RequestKinds, items \in ItemLists :
         req' = [state |-> "running", kind |-> kind, items |-> items,
                 idx |-> 1, failed |-> {}, out |-> <<>>]
    /\ UNCHANGED <<resolver_vars, ws_vars, synth_vars, trade_vars>>

\* one turn of the loop: await get_quote for the row, then the try body's
\* append or the except branch.  get_portfolio multiplies the price, which
\* raises inside the try for a missing one
RequestStep ==
    /\ req.state = "running"
    /\ req.idx <= Len(req.items)
    /\ \E feed \in Feeds(req.items[req.idx].symbol,
                         req.items[req.idx].asset_type) :
       \E r \in {get_quote(req.items[req.idx].symbol,
                           req.items[req.idx].asset_type, feed)} :
         LET item == req.items[req.idx]
             price == IF r.exc THEN None ELSE Get(r.quote, "current_price")
             fails == r.exc \/ (req.kind = "get_portfolio" /\ price = None)
             entry == [item |-> req.idx, symbol |-> item.symbol,
                       price |-> IF fails THEN None ELSE price]
         IN  /\ store' = r.store
             /\ last' = [called |-> TRUE, symbol |-> item.symbol,
                         asset_type |-> item.asset_type, feed |-> feed,
                         redis |-> redis_client /\ redis_up,
                         exc |-> r.exc, hit |-> r.hit, calls |-> r.calls,
                         raw |-> r.raw, quote |-> r.quote]
             /\ req' =
                  IF ~fails
                  THEN [req EXCEPT !.idx = @ + 1, !.out = Append(@, entry)]
                  ELSE CASE OnQuoteFailure(req.kind) = "continue" ->
                              [req EXCEPT !.idx = @ + 1,
                                          !.failed = @ \cup {req.idx}]
                         [] OnQuoteFailure(req.kind) = "unpriced" ->
                              [req EXCEPT !.idx = @ + 1,
                                          !.failed = @ \cup {req.idx},
                                          !.out = Append(@, entry)]
                         [] OTHER ->
                              [req EXCEPT !.state = "failed",
                                          !.failed = @ \cup {req.idx}]
             /\ UNCHANGED <<now, redis_client, redis_up>>
             /\ UNCHANGED <<ws_vars, synth_vars, trade_vars>>

\* the loop ran out of rows: the handler returns its response
RequestReturn ==
    /\ req.state = "running"
    /\ req.idx > Len(req.items)
    /\ req' = [req EXCEPT !.state = "returned"]
    /\ UNCHANGED <<resolver_vars, ws_vars, synth_vars, trade_vars>>

\* ===================================================== synthetic generators
\* the keys of base_prices
BasePriceSymbols ==
    {"AAPL", "MSFT", "GOOGL", "TSLA", "AMZN", "META", "NVDA", "SPY", "QQQ",
     "BTCUSD", "ETHUSD", "SOLUSD"}

\* the symbols the generators are called with: two of the table, one outside
MockSymbols == {"AAPL", "ETHUSD", "ZZZZ"}

\* the period tokens the history is asked for; "max" is not a key of days_map
Periods == {"1d", "5d", "1mo", "3mo", "6mo", "1y", "max"}

NoSynthCall ==
    [op |-> "", symbol |-> "", asset_type |-> "", period |-> "",
     source |-> "", bucket |-> 0, price |-> 0, base |-> 0, exc |-> FALSE,
     series |-> <<>>]

\* one call of get_mock_price.  mock_first keeps the first result of the
\* symbol's current minute, and whether another generator call came after it
MockPrice ==
    \E symbol \in MockSymbols :
    \E q \in {get_mock_price(symbol, now)} :
      LET bucket == now \div TimeBucket
          entry == [bucket |-> bucket, price |-> q["current_price"][1],
                    base |-> q["previous_close"][1], others |-> FALSE]
          Other(s) == IF s # symbol /\ mock_first[s] # None
                      THEN Some([mock_first[s][1] EXCEPT !.others = TRUE])
                      ELSE mock_first[s]
      IN  /\ rng' = Drawn(random_seed(SymbolSeed(symbol) + bucket), 1)
          /\ mock_first' =
                [s \in MockSymbols |->
                   IF s # symbol THEN Other(s)
                   ELSE IF /\ mock_first[s] # None
                           /\ mock_first[s][1].bucket = bucket
                        THEN mock_first[s] ELSE Some(entry)]
          /\ synth_last' = [NoSynthCall EXCEPT
                              !.op = "get_mock_price", !.symbol = symbol,
                              !.bucket = bucket, !.price = entry.price,
                              !.base = entry.base]
          /\ UNCHANGED <<resolver_vars, ws_vars, req, trade_vars>>

\* days_map.get(period), without the default
HistoryDaysNoDefault(period) ==
    CASE period = "1d" -> 1
      [] period = "5d" -> 5
      [] period = "1mo" -> 30
      [] period = "3mo" -> 90
      [] period = "6mo" -> 180
      [] period = "1y" -> 365
      [] OTHER -> 0

\* days_map.get(period, 30)
HistoryDays(period) ==
    CASE period = "1d" -> 1
      [] period = "5d" -> 5
      [] period = "1mo" -> 30
      [] period = "3mo" -> 90
      [] period = "6mo" -> 180
      [] period = "1y" -> 365
      [] OTHER -> 30

\* get_mock_historical_data: one bar for each i of range(days, 0, -1), dated
\* i days back; the bars' prices are left out
get_mock_historical_data(symbol, period) ==
    [k \in 1..HistoryDays(period) |->
        [days_ago |-> HistoryDays(period) - k + 1, synthetic |-> TRUE]]

\* what yfinance's Ticker.history answers: it raises (rate limit or another
\* error), returns a frame of `rows` rows, or returns rows of which one does
\* not convert (float() or int() raises)
HistoryResponses ==
    { [kind |-> "rate_limited", rows |-> 0],
      [kind |-> "error", rows |-> 0],
      [kind |-> "frame", rows |-> 0],
      [kind |-> "frame", rows |-> 2],
      [kind |-> "bad_row", rows |-> 2] }

\* get_historical_data_yfinance against the answer resp
get_historical_data_yfinance(symbol, period, resp) ==
    IF resp.kind = "frame" /\ resp.rows > 0
    THEN Returned([k \in 1..resp.rows |->
                      [days_ago |-> resp.rows - k, synthetic |-> FALSE]])
    ELSE Returned(get_mock_historical_data(symbol, period))

\* get_historical_data: the asset type plays no part
get_historical_data(symbol, asset_type, period, resp) ==
    get_historical_data_yfinance(symbol, period, resp)

\* one call of get_historical_data; the synthetic series reseeds the shared
\* generator and draws five times a bar
GetHistoricalData ==
    \E symbol \in MockSymbols, asset_type \in AssetTypes,
       period \in Periods, resp \in HistoryResponses :
    \E r \in {get_historical_data(symbol, asset_type, period, resp)} :
      LET synthetic == r.val # <<>> /\ r.val[1].synthetic
          Other(s) == IF synthetic /\ mock_first[s] # None
                      THEN Some([mock_first[s][1] EXCEPT !.others = TRUE])
                      ELSE mock_first[s]
      IN  /\ synth_last' = [NoSynthCall EXCEPT
                              !.op = "get_historical_data",
                              !.symbol = symbol, !.asset_type = asset_type,
                              !.period = period, !.source = resp.kind,
                              !.exc = r.exc, !.series = r.val]
          /\ rng' = IF resp.kind = "frame" /\ resp.rows > 0 THEN rng
                    ELSE Drawn(random_seed(SymbolSeed(symbol)),
                               5 * HistoryDays(period))
          /\ mock_first' = [s \in MockSymbols |-> Other(s)]
          /\ UNCHANGED <<resolver_vars, ws_vars, req, trade_vars>>

\* the clock of the synthetic generators moves on
MinuteTick ==
    /\ now + MockTickStep <= MaxMockTime
    /\ now' = now + MockTickStep
    /\ UNCHANGED <<redis_client, redis_up, store, last>>
    /\ UNCHANGED <<ws_vars, synth_vars, req, trade_vars>>

\* ================================================================= trading
\* money is in hundredths of a unit, quantities in whole units, the fee rate
\* in hundredths (10 is Decimal("0.10")); the rounding of the Numeric columns
\* is not modelled
InitialBalance == 10000000
DefaultTradingFeePercent == 0
MaxTrades == 2

FeeRates == {DefaultTradingFeePercent, 10}
TradeCalls == {"t1", "t2"}

\* the TradeRequest bodies the schema lets through: a crypto pair in two
\* quantities, a stock in one
TradeRequests ==
    { [symbol |-> "ETHUSD", asset_type |-> "crypto", action |-> a,
       quantity |-> q] : a \in {"buy", "sell"}, q \in {500, 1000} }
    \cup
    { [symbol |-> "AAPL", asset_type |-> "stock", action |-> a,
       quantity |-> 500] : a \in {"buy", "sell"} }

NoTradeRequest ==
    [symbol |-> "", asset_type |-> "", action |-> "", quantity |-> 0]

\* a create_trade request: not running (pc "idle"), or suspended in
\* get_quote with the user row it loaded
NoTradeCall == [pc |-> "idle", request |-> NoTradeRequest, cash |-> 0]

\* what a create_trade request returned: the cash balance its user row was
\* loaded with, the price it was quoted, its response status
NoTradeReturn ==
    [called |-> FALSE, call |-> "", request |-> NoTradeRequest, cash |-> 0,
     price |-> None, status |-> ""]

\* the default user as get_default_user creates it, nothing held or traded
InitialDb == [cash |-> InitialBalance, holdings |-> <<>>, trades |-> <<>>]

\* query(Holding).filter(user_id, symbol).first(): the index of the row, 0
\* for None
FirstHolding(holdings, symbol) ==
    LET rows == { i \in 1..Len(holdings) : holdings[i].symbol = symbol }
    IN  IF rows = {} THEN 0
        ELSE CHOOSE i \in rows : \A j \in rows : i <= j

RemoveAt(seq, i) == SubSeq(seq, 1, i - 1) \o SubSeq(seq, i + 1, Len(seq))

\* the CheckConstraints of holdings and trades, as the flush at commit time
\* enforces them
ConstraintsHold(holdings, trade) ==
    /\ \A i \in 1..Len(holdings) :
         holdings[i].quantity > 0 /\ holdings[i].average_cost >= 0
    /\ trade.quantity > 0
    /\ trade.price > 0

\* a buy that never finds the funds insufficient
InsufficientFundsNever(cash_balance, total_cost) == FALSE

\* user.cash_balance < total_cost
InsufficientFunds(cash_balance, total_cost) == cash_balance < total_cost

\* a sell that only asks whether the symbol is held
InsufficientHoldingOnlyMissing(holdings, i, quantity) == i = 0

\* not holding or holding.quantity < quantity
InsufficientHolding(holdings, i, quantity) ==
    i = 0 \/ holdings[i].quantity < quantity

\* execute_trade from the return of get_quote to db.commit(), on the rows d
\* that are committed at that moment and the cash balance the user row was
\* loaded with: the response status and the rows committed afterwards
execute_trade(d, cash_balance, trade_request, current_price) ==
    LET quantity == trade_request.quantity
        total_value == current_price * quantity
        fee == (total_value * TRADING_FEE_PERCENT) \div 100
        total_cost == total_value + fee
        i == FirstHolding(d.holdings, trade_request.symbol)
        trade == [action |-> trade_request.action,
                  symbol |-> trade_request.symbol,
                  quantity |-> quantity, price |-> current_price,
                  total_value |-> total_value, fee |-> fee]
        rejected == [status |-> "400", db |-> d]
        commit(cash, holdings) ==
            IF ConstraintsHold(holdings, trade)
            THEN [status |-> "201",
                  db |-> [cash |-> cash, holdings |-> holdings,
                          trades |-> Append(d.trades, trade)]]
            ELSE [status |-> "500", db |-> d]    \* IntegrityError, rollback
    IN  IF trade_request.action = "buy"
        THEN IF InsufficientFunds(cash_balance, total_cost) THEN rejected
             ELSE commit(cash_balance - total_cost,
                    IF i # 0
                    THEN LET total_quantity == d.holdings[i].quantity + quantity
                             total_cost_basis ==
                               d.holdings[i].quantity
                                 * d.holdings[i].average_cost + total_value
                         IN  [d.holdings EXCEPT
                                ![i].average_cost =
                                   total_cost_basis \div total_quantity,
                                ![i].quantity = total_quantity]
                    ELSE Append(d.holdings,
                                [symbol |-> trade_request.symbol,
                                 asset_type |-> trade_request.asset_type,
                                 quantity |-> quantity,
                                 average_cost |-> current_price]))
        ELSE IF InsufficientHolding(d.holdings, i, quantity) THEN rejected
             ELSE commit(cash_balance + (total_value - fee),
                    IF d.holdings[i].quantity - quantity <= 0
                    THEN RemoveAt(d.holdings, i)
                    ELSE [d.holdings EXCEPT ![i].quantity = @ - quantity])

\* create_trade returns: r is what get_quote gave the call t, whose user row
\* was loaded with cash_balance; a failed quote is a 500 and nothing is
\* written
TradeReturns(t, trade_request, cash_balance, feed, r) ==
    LET price == IF r.exc THEN None ELSE Get(r.quote, "current_price")
        out == IF price = None THEN [status |-> "500", db |-> db]
               ELSE execute_trade(db, cash_balance, trade_request, price[1])
    IN  /\ store' = r.store
        /\ last' = [called |-> TRUE, symbol |-> trade_request.symbol,
                    asset_type |-> trade_request.asset_type, feed |-> feed,
                    redis |-> redis_client /\ redis_up,
                    exc |-> r.exc, hit |-> r.hit, calls |-> r.calls,
                    raw |-> r.raw, quote |-> r.quote]
        /\ db' = out.db
        /\ calls' = [calls EXCEPT ![t] = NoTradeCall]
        /\ trade_last' = [called |-> TRUE, call |-> t,
                          request |-> trade_request, cash |-> cash_balance,
                          price |-> price, status |-> out.status]

\* POST /api/trades arrives: the user row is loaded and get_quote is called.
\* On a cache miss the call is suspended in the adapter's HTTP request; on a
\* hit, or when the cache read raises, get_quote returns without suspending
\* and the trade runs to its end
TradeBegin(t) ==
    /\ calls[t].pc = "idle"
    /\ Len(db.trades) < MaxTrades
    /\ \E trade_request \in TradeRequests :
         \E cached \in {get_cached_price(trade_request.symbol)} :
           IF ~cached.exc /\ ~Truthy(cached.val)
           THEN /\ calls' = [calls EXCEPT ![t] =
                               [pc |-> "quoting", request |-> trade_request,
                                cash |-> db.cash]]
                /\ UNCHANGED <<store, last, db, trade_last>>
           ELSE \E r \in {get_quote(trade_request.symbol,
                                    trade_request.asset_type, NoFeed)} :
                  TradeReturns(t, trade_request, db.cash, NoFeed, r)
    /\ UNCHANGED <<now, redis_client, redis_up, TRADING_FEE_PERCENT>>
    /\ UNCHANGED <<ws_vars, synth_vars, req>>

\* a trade request arrives while no other is running
TradeBeginAlone(t) ==
    /\ \A u \in TradeCalls : calls[u].pc = "idle"
    /\ TradeBegin(t)

\* the adapters answer: get_quote returns to the suspended call, which runs
\* to its end with the user row it loaded before the await
TradeResume(t) ==
    /\ calls[t].pc = "quoting"
    /\ \E feed \in UpstreamFeeds(calls[t].request.asset_type) :
       \E r \in {OnCacheMiss(calls[t].request.symbol,
                             calls[t].request.asset_type, feed)} :
         TradeReturns(t, calls[t].request, calls[t].cash, feed, r)
    /\ UNCHANGED <<now, redis_client, redis_up, TRADING_FEE_PERCENT>>
    /\ UNCHANGED <<ws_vars, synth_vars, req>>

\* ========================================================== specifications
\* the process after import and startup, the fee rate being what the
\* environment sets
Configured(fee) ==
    /\ now = 0
    /\ redis_client \in BOOLEAN
    /\ redis_up = TRUE
    /\ store = [s \in Symbols |-> None]
    /\ last = NoCall
    /\ active_connections = <<>>
    /\ subscriptions = EmptyDict
    /\ handler = [c \in Connections |-> "new"]
    /\ bcast = Idle
    /\ ws_last = NoWsCall
    /\ rng = Unseeded
    /\ mock_first = [s \in MockSymbols |-> None]
    /\ synth_last = NoSynthCall
    /\ req = NoRequest
    /\ TRADING_FEE_PERCENT = fee
    /\ db = InitialDb
    /\ calls = [t \in TradeCalls |-> NoTradeCall]
    /\ trade_last = NoTradeReturn

Init == Configured(DefaultTradingFeePercent)

MockPriceNext ==
    \/ MockPrice
    \/ MinuteTick

HistoryNext == GetHistoricalData

RequestsNext ==
    \/ RequestStart
    \/ RequestStep
    \/ RequestReturn

ResolverNext ==
    \/ GetQuote
    \/ Tick
    \/ RedisFails
    \/ RedisRecovers

BroadcasterNext ==
    \/ \E c \in Connections : WsConnect(c)
    \/ \E c \in Connections : WsReceive(c)
    \/ \E c \in Connections : WsAcked(c)
    \/ \E c \in Connections : WsFails(c)
    \/ \E c \in Connections : DisconnectAgain(c)
    \/ BroadcastStart
    \/ BroadcastResume

\* what the running server does to the manager: websocket_endpoint is the
\* only caller of its methods, and nothing calls broadcast_price_update
ServerNext ==
    \/ \E c \in Connections : WsConnect(c)
    \/ \E c \in Connections : WsReceive(c)
    \/ \E c \in Connections : WsAcked(c)
    \/ \E c \in Connections : WsFails(c)

\* the manager's methods as the handlers and any other caller use them
ManagerNext ==
    \/ \E c \in Connections : WsConnect(c)
    \/ \E c \in Connections : WsReceive(c)
    \/ \E c \in Connections : WsAcked(c)
    \/ \E c \in Connections : WsFails(c)
    \/ \E c \in Connections : CallAfterClose(c)

\* the quote resolver and its cache
SpecResolver == Init /\ [][ResolverNext]_vars

\* the manager never touches the cache: its specifications start with the
\* Redis client connected
WsInit == Init /\ redis_client

\* the connection manager, its handlers and its broadcasts
SpecBroadcaster == WsInit /\ [][BroadcasterNext]_vars

\* the synthetic price generator over two minutes
SpecMockPrice == Init /\ [][MockPriceNext]_vars

\* the price history and its synthetic substitute
SpecHistory == Init /\ [][HistoryNext]_vars

\* a portfolio or watchlist request resolving its quotes
SpecRequests == Init /\ [][RequestsNext]_vars

\* the manager with calls that come after a connection's disconnect
TradesNext ==
    \/ \E t \in TradeCalls : TradeBeginAlone(t)
    \/ \E t \in TradeCalls : TradeResume(t)

TradesConcurrentNext ==
    \/ \E t \in TradeCalls : TradeBegin(t)
    \/ \E t \in TradeCalls : TradeResume(t)

TradeInit == \E fee \in FeeRates : Configured(fee)

\* trade requests served one at a time
SpecTrades == TradeInit /\ [][TradesNext]_vars

\* trade requests served as the event loop interleaves them
SpecTradesConcurrent == TradeInit /\ [][TradesConcurrentNext]_vars

SpecManager == WsInit /\ [][ManagerNext]_vars

\* the server as it runs: the event loop keeps running handler steps while
\* one is ready
SpecServer == WsInit /\ [][ServerNext]_vars /\ WF_vars(ServerNext)

\* ================================================================== claims
\* every adapter of the chain get_quote selects for the call failed to give
\* real data
ChainFailed(asset_type, feed) ==
    IF asset_type = "crypto"
    THEN get_crypto_price(feed.binance) = None
    ELSE /\ get_stock_quote_finnhub(feed.finnhub) = None
         /\ feed.yfinance.kind \in {"nodata", "error"}

\* the cache entry of symbol is still within its ttl
EntryValid(symbol) ==
    store[symbol] # None /\ now < store[symbol][1].expires

\* the cache backend is present and reachable
CacheReachable == redis_client /\ redis_up

\* C1: get_quote returns a Quote for every symbol, asset type, cache state
\* and adapter outcome; it never raises.
ResolveNeverRaises ==
    last.called => ~last.exc

\* C2: when every adapter of the selected chain fails (the crypto chain
\* included), get_quote returns the synthetic price and, with the cache
\* reachable, writes it to the cache with the ttl.  (Read: a step that ends
\* a chain-failed call otherwise is no get_quote step.)
SyntheticFallbackCached ==
    [][ (/\ last'.called /\ ~last'.hit
         /\ ChainFailed(last'.asset_type, last'.feed)
         /\ ~(/\ ~last'.exc
              /\ Get(last'.quote, "current_price") =
                    get_mock_price(last'.symbol, now)["current_price"]
              /\ (CacheReachable =>
                    store'[last'.symbol] =
                       Some([price |-> last'.quote["current_price"][1],
                             expires |-> now + TTL]))))
        => ~GetQuote ]_vars

\* C3: every Quote get_quote returns has a current price that is present and
\* strictly positive.
QuotePricePositive ==
    (last.called /\ ~last.exc)
    => /\ "current_price" \in DOMAIN last.quote
       /\ last.quote["current_price"] # None
       /\ last.quote["current_price"][1] > 0

\* C4: a get_quote call with asset type crypto invokes no adapter but the
\* crypto adapter, whether that adapter succeeds or fails.
CryptoOnlyCryptoAdapter ==
    (last.called /\ last.asset_type = "crypto")
    => \A i \in 1..Len(last.calls) : last.calls[i] = "get_crypto_price"

\* C4 witness: the crypto adapter was invoked alone and failed
CryptoAdapterFailedAlone ==
    /\ last.called /\ last.asset_type = "crypto"
    /\ last.calls = <<"get_crypto_price">>
    /\ get_crypto_price(last.feed.binance) = None

\* C5: for a stock or etf on a cache miss the primary adapter is invoked
\* first, the secondary one only when the primary has failed, and the first
\* successful adapter's result is the one used.
EquityChainOrder ==
    (last.called /\ last.asset_type # "crypto" /\ ~last.hit)
    => LET primary == get_stock_quote_finnhub(last.feed.finnhub) IN
       /\ last.calls # <<>>
       /\ last.calls[1] = "get_stock_quote_finnhub"
       /\ IF primary # None
          THEN last.calls = <<"get_stock_quote_finnhub">>
               /\ last.raw = primary
          ELSE last.calls = <<"get_stock_quote_finnhub",
                              "get_stock_quote_yfinance">>
               /\ last.raw # None

\* C5 witness: the primary adapter failed and the secondary one answered
\* with real data
SecondaryWon ==
    /\ last.called /\ last.asset_type = "etf" /\ ~last.hit
    /\ last.calls = <<"get_stock_quote_finnhub", "get_stock_quote_yfinance">>
    /\ last.feed.yfinance.kind = "fast_info"
    /\ ~last.exc
    /\ last.quote["current_price"] = Some(last.feed.yfinance.price)

\* C6: a second get_quote for the same symbol, while the entry the first call
\* left is within its ttl, the cache is reachable and the adapters answer as
\* before, returns the first call's price tagged cached = true.
CacheCoherence ==
    [][ (/\ last.called /\ ~last.exc /\ last.redis
         /\ last'.symbol = last.symbol
         /\ CacheReachable
         /\ EntryValid(last.symbol)
         /\ (last'.calls # <<>> => last'.feed = last.feed)
         /\ GetQuote)
        => /\ last'.hit
           /\ "cached" \in DOMAIN last'.quote
           /\ last'.quote["cached"] = TRUE
           /\ last'.quote["current_price"] = last.quote["current_price"]
      ]_vars

\* C7: with the cache backend absent or unreachable, the cache read gives
\* nothing, the cache write changes nothing, neither raises, and get_quote
\* goes through the adapter chain; it fails only when the chain yields
\* nothing.  (Read: during an outage a step that does otherwise is no
\* get_quote step.)
CacheOutageDegrades ==
    [][ (/\ ~CacheReachable
         /\ ~(/\ store' = store
              /\ ~last'.hit
              /\ last'.calls # <<>>
              /\ (last'.exc <=> last'.raw = None)))
        => ~GetQuote ]_vars

\* C7 witness: a call answered by an adapter while the symbol's valid cache
\* entry sat in an unreachable backend
ServedDuringOutage ==
    /\ last.called /\ redis_client /\ ~last.redis
    /\ ~last.exc /\ ~last.hit
    /\ store[last.symbol] # None

\* the change the claim expects for an adapter result
ExpectedChange(raw) ==
    IF Get(raw, "change") # None THEN raw["change"][1]
    ELSE raw["current_price"][1] - raw["previous_close"][1]

\* C8: when the winning adapter's result has no change value but has a
\* current price and a previous close, the output has change = current -
\* previous; when it has no change_percent value and previous_close > 0, the
\* output has change_percent = change / previous_close * 100.
DerivedFields ==
    (last.called /\ ~last.exc /\ ~last.hit)
    => LET raw == last.raw[1]
           has_both == /\ Get(raw, "current_price") # None
                       /\ Get(raw, "previous_close") # None
       IN  /\ (Get(raw, "change") = None /\ has_both)
              => Get(last.quote, "change") = Some(ExpectedChange(raw))
           /\ (/\ Get(raw, "change_percent") = None
               /\ has_both
               /\ raw["previous_close"][1] > 0)
              => Get(last.quote, "change_percent") =
                    Some(PercentOf(ExpectedChange(raw),
                                   raw["previous_close"][1]))

\* C9: a broadcast that no connect, disconnect, subscribe or unsubscribe
\* interleaves with sends to exactly the registered connections subscribed
\* to its symbol, each once, in list order.
BroadcastToSubscribersOnly ==
    (bcast.state \in {"sending", "done"} /\ ~bcast.mutated)
    => LET Subscribed(c) == /\ c \in DOMAIN subscriptions
                            /\ bcast.symbol \in subscriptions[c]
           upto == IF bcast.idx > Len(active_connections)
                   THEN Len(active_connections) ELSE bcast.idx
       IN  bcast.sent =
              SelectSeq(SubSeq(active_connections, 1, upto), Subscribed)

\* C9 witness: A holds BTCUSD, B holds ETHUSD, and a finished BTCUSD
\* broadcast went to A alone
BroadcastReachedAOnly ==
    /\ bcast.state = "done" /\ ~bcast.mutated
    /\ bcast.symbol = "BTCUSD"
    /\ bcast.sent = <<"A">>
    /\ DOMAIN subscriptions = {"A", "B"}
    /\ subscriptions["A"] = {"BTCUSD"}
    /\ subscriptions["B"] = {"ETHUSD"}

\* C10: a second disconnect of the same connection does not raise and leaves
\* the connection list and the subscription map as the first call left them.
DisconnectIdempotent ==
    (ws_last.op = "disconnect" /\ ws_last.repeat)
    => (~ws_last.exc /\ ~ws_last.changed)

\* the connections a broadcast tried to send to and could not
FailedSends ==
    IF bcast.state = "sending"
    THEN Range(SubSeq(bcast.sent, 1, Len(bcast.sent) - 1)) \ bcast.delivered
    ELSE Range(bcast.sent) \ bcast.delivered

\* C11: a send that fails does not end the broadcast and is not raised past
\* it: with no interleaved manager call, every registered subscriber of the
\* symbol is still sent to; and no step of a broadcast, failed sends
\* included, changes the connection list or the subscription map, so the
\* failing connection stays registered until its own handler disconnects it.
DeliveryFailureContained ==
    /\ [](/\ bcast.state # "raised"
          /\ (bcast.state = "done" /\ ~bcast.mutated)
             => /\ \A c \in Range(active_connections) :
                      ShouldSend(c, bcast.symbol) => c \in Range(bcast.sent)
                /\ FailedSends \subseteq Range(active_connections))
    /\ [][ (\/ bcast'.state # bcast.state
            \/ bcast'.sent # bcast.sent
            \/ bcast'.delivered # bcast.delivered)
           => /\ active_connections' = active_connections
              /\ subscriptions' = subscriptions ]_vars

\* C11 witness: the send to A failed, B was sent to after it, and A is still
\* registered and subscribed
FailedSendThenDelivered ==
    /\ bcast.state = "done" /\ ~bcast.mutated
    /\ bcast.sent = <<"A", "B">>
    /\ bcast.delivered = {"B"}
    /\ "A" \in Range(active_connections)
    /\ bcast.symbol \in subscriptions["A"]

\* C12: once a connection's handler has disconnected it, no broadcast sends
\* to it again, whatever the symbol, and no broadcast step raises.
NoSendAfterDisconnect ==
    [][ \A c \in Connections :
          handler[c] = "closed"
          => /\ bcast'.state # "raised"
             /\ (/\ bcast'.state = "sending"
                 /\ (\/ bcast.state # "sending"
                     \/ bcast'.idx # bcast.idx
                     \/ bcast'.sent # bcast.sent))
                => bcast'.sent[Len(bcast'.sent)] # c ]_vars

\* C12 witness: A was disconnected while it held the symbol, and a broadcast
\* of that symbol begun afterwards went to B alone
BroadcastPassedClosedA ==
    /\ handler["A"] = "closed"
    /\ ws_last.op = "disconnect" /\ ws_last.conn = "A" /\ ~ws_last.exc
    /\ bcast.symbol \in ws_last.before
    /\ bcast.state = "done" /\ ~bcast.mutated
    /\ bcast.sent = <<"B">>

\* C13: a connection that holds a symbol is eventually delivered a
\* price_update for it, unless it gives the symbol up or disconnects first.
SubscriberEventuallyUpdated ==
    \A c \in Connections, symbol \in WsSymbols :
        ShouldSend(c, symbol)
        ~> (\/ (bcast.symbol = symbol /\ c \in bcast.delivered)
            \/ ~ShouldSend(c, symbol))

\* C14: unsubscribe does not raise and is acknowledged with "unsubscribed";
\* when the connection holds none of the symbols its set is left as it was;
\* and unsubscribing the same symbols once more changes nothing.
UnsubscribeIdempotent ==
    ws_last.op = "unsubscribe"
    => /\ ~ws_last.exc
       /\ ws_last.ack = "unsubscribed"
       /\ (ws_last.symbols \cap ws_last.before = {}) => ~ws_last.changed
       /\ unsubscribe(ws_last.conn, ws_last.symbols) =
             Manager(FALSE, active_connections, subscriptions)

\* C14 witness: a connection holding BTCUSD asked to unsubscribe ETHUSD, and
\* its handler is sending the acknowledgment
UnsubscribedUnheldSymbol ==
    /\ ws_last.op = "unsubscribe"
    /\ ws_last.symbols = {"ETHUSD"}
    /\ ws_last.before = {"BTCUSD"}
    /\ subscriptions[ws_last.conn] = {"BTCUSD"}
    /\ handler[ws_last.conn] = "acking"

\* C15: get_historical_data returns, without raising, a series of at least
\* one bar for every symbol, asset type and period token, whatever the source
\* answered; the series is the synthetic one whenever the source failed or
\* gave no usable frame.
HistoryNeverEmpty ==
    synth_last.op = "get_historical_data"
    => /\ ~synth_last.exc
       /\ Len(synth_last.series) >= 1
       /\ (synth_last.source # "frame")
          => \A k \in 1..Len(synth_last.series) :
                synth_last.series[k].synthetic

\* C15 witness: a period token days_map does not know, for a symbol outside
\* the table, with the source failing: the synthetic default series
UnknownPeriodServed ==
    /\ synth_last.op = "get_historical_data"
    /\ synth_last.period = "max"
    /\ synth_last.symbol = "ZZZZ"
    /\ synth_last.asset_type = "crypto"
    /\ synth_last.source = "error"
    /\ Len(synth_last.series) = 30
    /\ synth_last.series[1].synthetic

\* C16: a get_mock_price call returns the price the first call for the same
\* symbol in the same minute returned, whatever was generated in between;
\* symbols with different table entries get different base prices, and a
\* symbol outside the table gets the default base price.
MockPriceDeterministic ==
    /\ \A s1, s2 \in BasePriceSymbols :
          s1 # s2 => BasePrice(s1) # BasePrice(s2)
    /\ \A s \in MockSymbols :
          mock_first[s] # None
          => mock_first[s][1].base =
                100 * (IF s \in BasePriceSymbols
                       THEN BasePrice(s) ELSE DefaultBasePrice)
    /\ synth_last.op = "get_mock_price"
       => LET first == mock_first[synth_last.symbol][1] IN
          /\ first.bucket = synth_last.bucket
          /\ first.price = synth_last.price
          /\ first.base = synth_last.base

\* C16 witness: AAPL was priced, another generator ran, and AAPL was priced
\* again in the same minute
MockPriceRepeated ==
    /\ synth_last.op = "get_mock_price"
    /\ synth_last.symbol = "AAPL"
    /\ mock_first["AAPL"][1].others
    /\ mock_first["ETHUSD"] # None
    /\ mock_first["ETHUSD"][1].bucket = synth_last.bucket

\* C17: a row whose quote cannot be had does not fail the request, and the
\* response still carries, in row order, a priced entry for every other row;
\* the watchlist keeps the failed row too, without a price.
QuoteFailureContained ==
    /\ req.state # "failed"
    /\ req.state = "returned"
       => LET priced == SelectSeq(req.out, LAMBDA e : e.price # None)
              ok == SelectSeq([k \in 1..Len(req.items) |-> k],
                              LAMBDA k : k \notin req.failed)
          IN  /\ [k \in 1..Len(priced) |-> priced[k].item] = ok
              /\ req.kind = "get_watchlist"
                 => [k \in 1..Len(req.out) |-> req.out[k].item] =
                      [k \in 1..Len(req.items) |-> k]

\* C17 witness: the first of two holdings could not be quoted and the
\* portfolio came back with the second one priced
PortfolioWithoutFailedHolding ==
    /\ req.state = "returned" /\ req.kind = "get_portfolio"
    /\ Len(req.items) = 2 /\ req.failed = {1}
    /\ Len(req.out) = 1
    /\ req.out[1].item = 2 /\ req.out[1].price # None

\* C18: whatever connects, disconnects, subscribes or unsubscribes while a
\* broadcast waits in a send, the broadcast does not raise, and when it ends
\* every connection that was registered and subscribed to its symbol from
\* its start to its end has been sent the update exactly once.
BroadcastSafeUnderInterleaving ==
    /\ bcast.state # "raised"
    /\ bcast.state = "done"
       => \A c \in bcast.steady :
             Cardinality({ k \in 1..Len(bcast.sent) : bcast.sent[k] = c }) = 1

\* C19: the connections that have a subscription set are exactly the
\* registered ones, each registered once: connect creates the set empty,
\* disconnect removes it with the connection, and a set belongs to one
\* connection only, so a call for one connection leaves the other sets alone.
SubscriptionsMatchConnections ==
    /\ DOMAIN subscriptions = Range(active_connections)
    /\ Cardinality(Range(active_connections)) = Len(active_connections)
    /\ \A c \in Connections :
          /\ handler[c] \in {"new", "aborted", "closed"}
             => c \notin DOMAIN subscriptions
          /\ handler[c] \in {"open", "acking"}
             => c \in DOMAIN subscriptions
    /\ (ws_last.op = "connect" /\ ~ws_last.exc)
       => subscriptions[ws_last.conn] = {}
    /\ (ws_last.op = "disconnect" /\ ~ws_last.exc)
       => ws_last.conn \notin DOMAIN subscriptions

\* C19 witness: A was disconnected while it held symbols, and B alone is
\* registered, with its own set
OnlyBKeepsItsSet ==
    /\ ws_last.op = "disconnect" /\ ws_last.conn = "A"
    /\ ws_last.before # {}
    /\ active_connections = <<"B">>
    /\ DOMAIN subscriptions = {"B"}
    /\ subscriptions["B"] # {}

\* C20: when the cache lookup finds a price, get_quote returns that price
\* tagged cached = true, calls no adapter and leaves the cache as it was.
\* (Read: a step that ends such a call otherwise is no get_quote step.)
CacheHitShortCircuits ==
    [][ (/\ last'.called
         /\ Truthy(get_cached_price(last'.symbol).val)
         /\ ~(/\ store' = store
              /\ last'.hit /\ ~last'.exc
              /\ last'.calls = <<>>
              /\ last'.quote["cached"] = TRUE
              /\ last'.quote["current_price"] =
                    get_cached_price(last'.symbol).val))
        => ~GetQuote ]_vars

\* C20 witness: a call served from the cache after the clock moved on, the
\* entry still as the earlier call wrote it
ServedFromCache ==
    /\ last.called /\ last.hit
    /\ last.calls = <<>>
    /\ now > 0
    /\ store[last.symbol] # None
    /\ store[last.symbol][1].expires = TTL
    /\ last.quote["current_price"] = Some(store[last.symbol][1].price)

\* C21: an entry lives less than the ttl after it was written, and a call
\* that finds no entry within its ttl (none, or an expired one) is not a hit:
\* it goes to the adapters.  (Read: a step that ends such a call as a hit or
\* without an adapter call is no get_quote step.)
CacheEntryExpires ==
    /\ [](\A s \in Symbols :
            store[s] # None => store[s][1].expires <= now + TTL)
    /\ [][ (/\ last'.called
            /\ ~EntryValid(last'.symbol)
            /\ (last'.hit \/ last'.calls = <<>>))
           => ~GetQuote ]_vars

\* C21 witness: a call made when the ttl of anything written at the start
\* has run out went to the adapters and wrote a new entry
RefetchedAfterExpiry ==
    /\ last.called /\ ~last.hit /\ ~last.exc /\ last.redis
    /\ now >= TTL
    /\ last.calls # <<>>
    /\ store[last.symbol] # None
    /\ store[last.symbol][1].expires = now + TTL

\* C22: subscribe leaves the connection's set as the union of the set it
\* found and the requested symbols, and the acknowledgment is "subscribed"
\* with the requested symbols only.
SubscribeAccumulates ==
    ws_last.op = "subscribe"
    => /\ ~ws_last.exc
       /\ subscriptions[ws_last.conn] = ws_last.before \cup ws_last.symbols
       /\ ws_last.ack = "subscribed"
       /\ ws_last.ack_symbols = ws_last.symbols

\* C22 witness: a connection holding BTCUSD subscribed to ETHUSD: it holds
\* both, and the acknowledgment being sent names ETHUSD alone
SecondSubscribeKeptFirst ==
    /\ ws_last.op = "subscribe"
    /\ ws_last.before = {"BTCUSD"}
    /\ ws_last.symbols = {"ETHUSD"}
    /\ subscriptions[ws_last.conn] = {"BTCUSD", "ETHUSD"}
    /\ ws_last.ack_symbols = {"ETHUSD"}
    /\ handler[ws_last.conn] = "acking"

\* C23: a connection starts with an empty set, and once its handler has
\* disconnected it it stays closed, unregistered and without a set: a
\* subscribe or unsubscribe for it does not raise and changes nothing.
ClosedIsTerminal ==
    /\ [][ \A c \in Connections :
            /\ (handler[c] = "new" /\ handler'[c] = "open")
               => subscriptions'[c] = {}
            /\ handler[c] = "closed"
               => /\ handler'[c] = "closed"
                  /\ c \notin DOMAIN subscriptions'
                  /\ c \notin Range(active_connections') ]_vars
    /\ []((ws_last.repeat /\ ws_last.op \in {"subscribe", "unsubscribe"})
          => (~ws_last.exc /\ ~ws_last.changed))

\* C23 witness: A was disconnected and a subscribe for A came afterwards: A
\* is still unregistered and without a set, while B keeps its own
SubscribeAfterCloseIgnored ==
    /\ handler["A"] = "closed"
    /\ ws_last.op = "subscribe" /\ ws_last.conn = "A" /\ ws_last.repeat
    /\ ws_last.symbols # {}
    /\ "A" \notin DOMAIN subscriptions
    /\ "A" \notin Range(active_connections)
    /\ handler["B"] = "open" /\ subscriptions["B"] # {}

\* C24: whatever ends a handler's loop, the client's disconnect or another
\* exception, the handler calls disconnect for its connection, which leaves
\* it in neither the list nor the map; and disconnect is not called for a
\* connection whose handler has ended.
HandlerCleansUpOnce ==
    /\ [][ \A c \in Connections :
            (handler[c] \in {"open", "acking"} /\ handler'[c] = "closed")
            => /\ ws_last'.op = "disconnect" /\ ws_last'.conn = c
               /\ ~ws_last'.exc
               /\ c \notin Range(active_connections')
               /\ c \notin DOMAIN subscriptions' ]_vars
    /\ [][ (ws_last' # ws_last /\ ws_last'.op = "disconnect")
           => (/\ handler[ws_last'.conn] \in {"open", "acking"}
               /\ handler'[ws_last'.conn] = "closed") ]_vars

\* C24 witness: a subscribed connection's handler ended on an exception
\* other than the client's disconnect, and the connection is gone
CleanedUpAfterError ==
    /\ handler["A"] = "closed"
    /\ ws_last.op = "disconnect" /\ ws_last.conn = "A"
    /\ ws_last.error = "Exception"
    /\ ws_last.before # {}
    /\ "A" \notin Range(active_connections)
    /\ "A" \notin DOMAIN subscriptions

\* C25: a step that changes the connection list or the subscription map is
\* a manager call for one connection, and it leaves every other connection
\* registered or not as it was, with the set it had.
OtherConnectionsUntouched ==
    [][ (active_connections' # active_connections
         \/ subscriptions' # subscriptions)
        => /\ ws_last'.op \in {"connect", "subscribe", "unsubscribe",
                                "disconnect"}
           /\ \A b \in Connections \ {ws_last'.conn} :
                 /\ (b \in Range(active_connections'))
                      <=> (b \in Range(active_connections))
                 /\ (b \in DOMAIN subscriptions')
                      <=> (b \in DOMAIN subscriptions)
                 /\ b \in DOMAIN subscriptions
                    => subscriptions'[b] = subscriptions[b] ]_vars

\* C25 witness: A, first in the list and subscribed, was disconnected while
\* B was waiting on its own acknowledgment: B is registered with its set
DisconnectOfALeftB ==
    /\ ws_last.op = "disconnect" /\ ws_last.conn = "A" /\ ws_last.changed
    /\ ws_last.before = {"ETHUSD"}
    /\ handler["B"] = "acking"
    /\ active_connections = <<"B">>
    /\ subscriptions["B"] = {"BTCUSD"}

\* the cash the committed trades account for: minus value and fee of each
\* buy, plus value less fee of each sell
RECURSIVE CashFlow(_)
CashFlow(trades) ==
    IF trades = <<>> THEN 0
    ELSE LET x == Head(trades)
         IN  (IF x.action = "buy" THEN 0 - (x.total_value + x.fee)
              ELSE x.total_value - x.fee)
             + CashFlow(Tail(trades))

\* C26: when trade requests of the one user interleave at the await of
\* get_quote, no balance update is lost: the cash is the initial balance
\* less the cost of the committed buys plus the proceeds of the committed
\* sells, and it is never negative.
NoUpdateLost ==
    /\ db.cash = InitialBalance + CashFlow(db.trades)
    /\ db.cash >= 0

\* C27: a trade that returns 400 leaves cash, holdings and trades as they
\* were; a buy whose value plus fee exceeds the cash, and a sell of a symbol
\* that is not held or held in a smaller quantity, return 400 once the quote
\* is there; a trade that returns 201 appends exactly one trade record, and
\* nothing else adds or removes one.
RejectedTradeChangesNothing ==
    [][ /\ (trade_last' # trade_last \/ db' # db)
           => LET c == trade_last'
                  q == c.request.quantity
                  i == FirstHolding(db.holdings, c.request.symbol)
              IN  /\ c.status = "400" => db' = db
                  /\ c.status = "201"
                     => /\ Len(db'.trades) = Len(db.trades) + 1
                        /\ SubSeq(db'.trades, 1, Len(db.trades)) = db.trades
                  /\ c.status \notin {"400", "201"} => db'.trades = db.trades
                  /\ (c.price # None /\ c.request.action = "buy"
                      /\ c.price[1] * q
                           + (c.price[1] * q * TRADING_FEE_PERCENT) \div 100
                         > db.cash)
                     => c.status = "400"
                  /\ (c.price # None /\ c.request.action = "sell"
                      /\ (i = 0 \/ db.holdings[i].quantity < q))
                     => c.status = "400" ]_vars

\* C27 witness: after one trade was committed, a sell of more than is held
\* came back 400
SellBeyondHoldingRejected ==
    /\ trade_last.status = "400"
    /\ trade_last.request.action = "sell"
    /\ Len(db.trades) = 1
    /\ \E i \in 1..Len(db.holdings) :
          /\ db.holdings[i].symbol = trade_last.request.symbol
          /\ db.holdings[i].quantity < trade_last.request.quantity

\* C28: with trades run one at a time and a fee rate between 0 and 1, the
\* cash is never negative, every stored holding has a quantity above zero
\* and no symbol has two holdings.
PortfolioSound ==
    /\ db.cash >= 0
    /\ \A i \in 1..Len(db.holdings) : db.holdings[i].quantity > 0
    /\ \A i, j \in 1..Len(db.holdings) :
          db.holdings[i].symbol = db.holdings[j].symbol => i = j

\* C28 witness: a holding was bought and then sold to zero at a fee: its
\* row is gone
HoldingSoldToZero ==
    /\ TRADING_FEE_PERCENT > 0
    /\ Len(db.trades) = 2
    /\ db.trades[1].action = "buy"
    /\ db.trades[2].action = "sell"
    /\ db.trades[2].symbol = db.trades[1].symbol
    /\ db.holdings = <<>>

\* C29: a quote served from the cache has the keys symbol, asset_type,
\* current_price, timestamp and cached and no other: no change,
\* change_percent, previous_close, open, high, low or volume, also when the
\* call before it, for the same symbol, returned a quote that had them.
CachedQuoteIsBare ==
    /\ [](last.called /\ last.hit /\ ~last.exc
           => DOMAIN last.quote = {"symbol", "asset_type", "current_price",
                                   "timestamp", "cached"})
    /\ [][ (/\ last.called /\ ~last.exc /\ ~last.hit
            /\ "change_percent" \in DOMAIN last.quote
            /\ last'.called /\ last'.hit
            /\ last'.symbol = last.symbol)
           => DOMAIN last'.quote \cap
                {"change", "change_percent", "previous_close", "open_price",
                 "high_price", "low_price", "volume"} = {} ]_vars

\* C29 witness: a crypto quote served from the cache, whose adapter always
\* gives a change_percent: the quote has none
CachedCryptoQuoteHasNoChange ==
    /\ last.called /\ last.hit /\ ~last.exc
    /\ last.asset_type = "crypto"
    /\ "cached" \in DOMAIN last.quote
    /\ "change_percent" \notin DOMAIN last.quote

====
